---- MODULE Spec2Model ----
(***************************************************************************)
(* django-published: the publication gatekeeper.                           *)
(*                                                                         *)
(* The model covers the record fields (models.py), the single-object       *)
(* gatekeeper can_object_page_be_shown (utils.py), the list and detail     *)
(* view mixins (mixins.py), the validation hook clean (models.py) and the  *)
(* admin status label (admin.py).                                          *)
(*                                                                         *)
(* Encodings.  An optional value is a sequence of length at most one:      *)
(* None is <<>>, a value v is <<v>>.  A timestamp is a clock tick.  A      *)
(* call's result is an outcome record: the value returned, or the name of  *)
(* the exception raised.                                                   *)
(***************************************************************************)
EXTENDS Integers, Sequences, FiniteSets, TLC

VARIABLES objects, has_standalone, now, response

vars == <<objects, has_standalone, now, response>>

----------------------------------------------------------------------------
(* Bounds of the model. *)

\* The clock runs over 0..MaxTime; live_as_of is drawn from the same range.
MaxTime == 2

\* Number of clock ticks in one calendar day (strftime("%x") keeps the day).
TicksPerDay == 2

\* Largest number of rows in the table of the list specification.
MaxObjects == 2

----------------------------------------------------------------------------
(* constants.py *)

NEVER_AVAILABLE == -1
AVAILABLE_AFTER == 0
AVAILABLE == 1

\* publish_status is an IntegerField: the choices are enforced by forms only,
\* so a stored row can hold an integer outside the three choices.
StoredStatusValues == (NEVER_AVAILABLE - 1)..(AVAILABLE + 1)

None == <<>>

Some(v) == <<v>>

Timestamps == 0..MaxTime

\* live_as_of = DateTimeField(null=True, blank=True)
LiveAsOfValues == {None} \cup {Some(t) : t \in Timestamps}

\* treat_as_standalone is no field of PublishedAbstractModel; a concrete model
\* may declare it.  None stands for "the attribute does not exist".
StandaloneValues == IF has_standalone THEN {Some(0), Some(1)} ELSE {None}

\* A row of a concrete model derived from PublishedAbstractModel.
PublishedAbstractModel(status, live, standalone) ==
    [publish_status |-> status, live_as_of |-> live, treat_as_standalone |-> standalone]

\* The field defaults: publish_status default=1, live_as_of null.
NewObject(standalone) == PublishedAbstractModel(AVAILABLE, None, standalone)

----------------------------------------------------------------------------
(* Viewers: the user argument / request.user. *)

\* user = None
NoUser == [present |-> FALSE, is_authenticated |-> FALSE, is_staff |-> FALSE]

\* django.contrib.auth AnonymousUser
AnonymousUser == [present |-> TRUE, is_authenticated |-> FALSE, is_staff |-> FALSE]

\* a logged-in user who is not staff
PlainUser == [present |-> TRUE, is_authenticated |-> TRUE, is_staff |-> FALSE]

\* a logged-in staff user
StaffUser == [present |-> TRUE, is_authenticated |-> TRUE, is_staff |-> TRUE]

Users == {NoUser, AnonymousUser, PlainUser, StaffUser}

----------------------------------------------------------------------------
(* Outcomes of a call. *)

Return(v) == [raised |-> "", value |-> Some(v)]

Raise(e) == [raised |-> e, value |-> None]

----------------------------------------------------------------------------
(* utils.py *)

\* The try block of can_object_page_be_shown (lines 65-68): "return" when it
\* returns True, "fallthrough" when it completes without returning, or the
\* name of the exception it raises.  user.is_staff raises AttributeError when
\* user is None; this_object.treat_as_standalone raises AttributeError when
\* the model has no such attribute, and is evaluated only when
\* publish_status >= 0 is false.
staff_branch(user, this_object) ==
    IF ~user.present THEN "AttributeError"
    ELSE IF ~user.is_staff THEN "fallthrough"
    ELSE IF this_object.publish_status >= 0 THEN "return"
    ELSE IF this_object.treat_as_standalone = None THEN "AttributeError"
    ELSE IF this_object.treat_as_standalone = Some(1) THEN "return"
    ELSE "fallthrough"

\* public_rules with the date test strict: a row is held back at the very
\* instant it goes live.
public_rules_strict(this_object, t) ==
    IF this_object.publish_status = 1 THEN TRUE
    ELSE IF this_object.publish_status < 0 THEN FALSE
    ELSE IF this_object.publish_status = 0
         THEN IF this_object.live_as_of # None
              THEN this_object.live_as_of[1] < t
              ELSE FALSE
    ELSE TRUE

\* public_rules with the date test applied to every status >= 0, the
\* "always on" status included.
public_rules_dated_always_on(this_object, t) ==
    IF this_object.publish_status < 0 THEN FALSE
    ELSE IF this_object.live_as_of # None
         THEN this_object.live_as_of[1] <= t
         ELSE FALSE

\* public_rules with the date comparison turned round.
public_rules_reversed(this_object, t) ==
    IF this_object.publish_status = 1 THEN TRUE
    ELSE IF this_object.publish_status < 0 THEN FALSE
    ELSE IF this_object.publish_status = 0
         THEN IF this_object.live_as_of # None
              THEN t <= this_object.live_as_of[1]
              ELSE FALSE
    ELSE TRUE

\* public_rules without the else branch of the None test: a row with no
\* date falls through to the final return True.
public_rules_no_date_falls_through(this_object, t) ==
    IF this_object.publish_status = 1 THEN TRUE
    ELSE IF this_object.publish_status < 0 THEN FALSE
    ELSE IF this_object.publish_status = 0
         THEN IF this_object.live_as_of # None
              THEN this_object.live_as_of[1] <= t
              ELSE TRUE
    ELSE TRUE

\* Lines 72-92, reached when the try block did not return.  t is the value
\* datetime.now(pytz.utc) yields when it is read on line 84.  The test
\* "if not this_object" on line 75 is false for every model instance (a
\* Model defines neither __bool__ nor __len__).
public_rules(this_object, t) ==
    IF this_object.publish_status = 1 THEN TRUE
    ELSE IF this_object.publish_status < 0 THEN FALSE
    ELSE IF this_object.publish_status = 0
         THEN IF this_object.live_as_of # None
              THEN LET delta == this_object.live_as_of[1] <= t
                   IN  IF ~delta THEN FALSE ELSE TRUE
              ELSE FALSE
    ELSE TRUE

\* can_object_page_be_shown(user, this_object): "except Exception: pass"
\* swallows whatever the try block raises, so the call always returns.
can_object_page_be_shown(user, this_object, t) ==
    IF staff_branch(user, this_object) = "return"
    THEN Return(TRUE)
    ELSE Return(public_rules(this_object, t))

can_object_page_be_shown_to_pubilc(this_object, t) ==
    can_object_page_be_shown(NoUser, this_object, t)

----------------------------------------------------------------------------
(* models.py *)

\* clean rejecting every row that has no date, whatever its status.
clean_any_status(self) ==
    IF self.live_as_of = None
    THEN Raise("ValidationError")
    ELSE Return(None)

\* PublishedAbstractModel.clean
clean(self) ==
    IF (self.publish_status = AVAILABLE_AFTER) /\ (self.live_as_of = None)
    THEN Raise("ValidationError")
    ELSE Return(None)

\* PublishedAbstractModel.available_to_public
available_to_public(self, t) == can_object_page_be_shown_to_pubilc(self, t)

----------------------------------------------------------------------------
(* mixins.py *)

\* The queryset super().get_queryset() yields: every row, in primary-key order.
all_objects == [pk \in 1..Len(objects) |-> pk]

\* The lookup live_as_of__gt=t.  A NULL column matches no comparison lookup,
\* and QuerySet.exclude keeps every row its condition does not match (the ORM
\* adds "IS NOT NULL" to a negated comparison on a nullable column).
live_as_of__gt(obj, t) == obj.live_as_of # None /\ obj.live_as_of[1] > t

\* PublishedListMixin.get_queryset.  request.user = None has no attribute
\* is_authenticated.
get_queryset(user, t) ==
    IF ~user.present THEN Raise("AttributeError")
    ELSE IF ~user.is_authenticated
    THEN LET qs1 == SelectSeq(all_objects,
                        LAMBDA pk : ~(objects[pk].publish_status = NEVER_AVAILABLE))
             qs2 == SelectSeq(qs1,
                        LAMBDA pk : ~(objects[pk].publish_status = AVAILABLE_AFTER
                                      /\ live_as_of__gt(objects[pk], t)))
         IN  Return(qs2)
    ELSE Return(all_objects)

\* get_object without the gatekeeper test: the row is always returned.
get_object_unguarded(user, obj, t) == Return(obj)

\* PublishedDetailMixin.get_object: obj is the row super().get_object fetched.
get_object(user, obj, t) ==
    LET shown == can_object_page_be_shown(user, obj, t)
    IN  IF shown.raised # "" THEN shown
        ELSE IF shown.value[1] THEN Return(obj)
        ELSE Raise("Http404")

----------------------------------------------------------------------------
(* admin.py *)

\* live_as_of.strftime("%x"): the calendar date, the time of day dropped.
strftime_x(t) == t \div TicksPerDay

\* A label: the text, the date substituted for dstr (None when there is none),
\* and whether the text went through mark_safe.
Label(text, date, safe) == [text |-> text, date |-> date, safe |-> safe]

\* show_publish_status with ">=" for ">": a row going live at this very
\* instant is still labelled as pending.
show_publish_status_ge(obj, t) ==
    IF obj.publish_status = AVAILABLE
    THEN Return(Label("<strong>Available</strong>", None, TRUE))
    ELSE IF obj.publish_status = NEVER_AVAILABLE
    THEN Return(Label("<strong>Never Available</strong>", None, TRUE))
    ELSE IF obj.live_as_of = None
         THEN Return(Label("N/A", None, FALSE))
         ELSE IF obj.live_as_of[1] >= t
              THEN Return(Label("<strong>Available After: {dstr}</strong>",
                                Some(strftime_x(obj.live_as_of[1])), TRUE))
              ELSE Return(Label("<strong>Available</strong>", None, TRUE))

\* PublishedAdmin.show_publish_status; t is the value of timezone.now().
show_publish_status(obj, t) ==
    IF obj.publish_status = AVAILABLE
    THEN Return(Label("<strong>Available</strong>", None, TRUE))
    ELSE IF obj.publish_status = NEVER_AVAILABLE
    THEN Return(Label("<strong>Never Available</strong>", None, TRUE))
    ELSE IF obj.live_as_of = None
         THEN Return(Label("N/A", None, FALSE))
         ELSE IF obj.live_as_of[1] > t
              THEN LET dstr == strftime_x(obj.live_as_of[1])
                   IN  Return(Label("<strong>Available After: {dstr}</strong>",
                                    Some(dstr), TRUE))
              ELSE Return(Label("<strong>Available</strong>", None, TRUE))

----------------------------------------------------------------------------
(* The state machine. *)

\* What the last operation was and what it produced: the operation, the
\* viewer and the row it was called with (pk = 0: no row), the clock value it
\* ran at, and its outcome.
Response(op, user, pk, out) ==
    [op |-> op, user |-> user, pk |-> pk, at |-> now, out |-> out]

Pks == 1..Len(objects)

TypeOK ==
    /\ has_standalone \in BOOLEAN
    /\ now \in Timestamps
    /\ Len(objects) <= MaxObjects
    /\ \A pk \in Pks :
          /\ objects[pk].publish_status \in StoredStatusValues
          /\ objects[pk].live_as_of \in LiveAsOfValues
          /\ objects[pk].treat_as_standalone \in StandaloneValues

\* One row exists, with the field defaults; nothing has been called yet.
Init ==
    /\ has_standalone \in BOOLEAN
    /\ \E sa \in (IF has_standalone THEN {Some(0), Some(1)} ELSE {None}) :
          objects = <<NewObject(sa)>>
    /\ now = 0
    /\ response = [op |-> "none", user |-> NoUser, pk |-> 0, at |-> 0, out |-> Return(None)]

\* The table starts empty.
InitList ==
    /\ has_standalone \in BOOLEAN
    /\ objects = <<>>
    /\ now = 0
    /\ response = [op |-> "none", user |-> NoUser, pk |-> 0, at |-> 0, out |-> Return(None)]

\* Model.objects.create() with the field defaults.
Create ==
    /\ Len(objects) < MaxObjects
    /\ \E sa \in StandaloneValues :
          objects' = Append(objects, NewObject(sa))
    /\ response' = Response("create", NoUser, Len(objects) + 1, Return(None))
    /\ UNCHANGED <<has_standalone, now>>

\* An edit of the row's fields followed by save(); save() does not call
\* clean(), so any combination of values can be stored.
Save ==
    \E pk \in Pks, status \in StoredStatusValues, live \in LiveAsOfValues,
       sa \in StandaloneValues :
       /\ objects' = [objects EXCEPT ![pk] = PublishedAbstractModel(status, live, sa)]
       /\ response' = Response("save", NoUser, pk, Return(None))
       /\ UNCHANGED <<has_standalone, now>>

\* Time passes.
Tick ==
    /\ now < MaxTime
    /\ now' = now + 1
    /\ UNCHANGED <<objects, has_standalone, response>>

\* obj.clean()
Clean ==
    \E pk \in Pks :
       /\ response' = Response("clean", NoUser, pk, clean(objects[pk]))
       /\ UNCHANGED <<objects, has_standalone, now>>

\* can_object_page_be_shown(user, obj)
CanObjectPageBeShown ==
    \E pk \in Pks, user \in Users :
       /\ response' = Response("can_object_page_be_shown", user, pk,
                               can_object_page_be_shown(user, objects[pk], now))
       /\ UNCHANGED <<objects, has_standalone, now>>

\* A detail view: PublishedDetailMixin.get_object for request.user.
GetObject ==
    \E pk \in Pks, user \in Users :
       /\ response' = Response("get_object", user, pk, get_object(user, objects[pk], now))
       /\ UNCHANGED <<objects, has_standalone, now>>

\* A list view: PublishedListMixin.get_queryset for request.user.
GetQueryset ==
    \E user \in Users :
       /\ response' = Response("get_queryset", user, 0, get_queryset(user, now))
       /\ UNCHANGED <<objects, has_standalone, now>>

\* The admin change list: PublishedAdmin.show_publish_status(obj).
ShowPublishStatus ==
    \E pk \in Pks :
       /\ response' = Response("show_publish_status", NoUser, pk,
                               show_publish_status(objects[pk], now))
       /\ UNCHANGED <<objects, has_standalone, now>>

Next ==
    \/ Save
    \/ Tick
    \/ Clean
    \/ CanObjectPageBeShown
    \/ GetObject
    \/ GetQueryset
    \/ ShowPublishStatus

NextList ==
    \/ Create
    \/ Save
    \/ Tick
    \/ GetQueryset

\* One row: the single-object operations.
Spec == Init /\ [][Next]_vars

\* A table of up to MaxObjects rows: the list view.
SpecList == InitList /\ [][NextList]_vars

----------------------------------------------------------------------------
(* Properties. *)

\* The row the last operation was called with.
this_object == objects[response.pk]

\* The last operation was op; the row it ran on is unchanged since (Save
\* replaces the response).
Called(op) == response.op = op

ValidStatus(obj) == obj.publish_status \in {NEVER_AVAILABLE, AVAILABLE_AFTER, AVAILABLE}

\* C1: can_object_page_be_shown returns true for a staff viewer in every
\* publication state (each of the three statuses, any live_as_of),
\* NEVER_AVAILABLE included.
C1_StaffSeesEverything ==
    (Called("can_object_page_be_shown") /\ response.user.is_staff
        /\ ValidStatus(this_object))
        => response.out = Return(TRUE)

\* C2: for a present viewer and a table of rows with valid statuses,
\* get_queryset keeps exactly the rows for which can_object_page_be_shown
\* is true for that viewer at the same instant.
C2_ListAgreesWithDecision ==
    (/\ Called("get_queryset") /\ response.user.present
     /\ \A pk \in Pks : ValidStatus(objects[pk]))
        => response.out =
              Return(SelectSeq(all_objects,
                        LAMBDA pk : can_object_page_be_shown(
                                        response.user, objects[pk], response.at)
                                    = Return(TRUE)))

\* C3: for a viewer who is not staff and a row with a valid status, the
\* decision is true exactly when the status is AVAILABLE, or it is
\* AVAILABLE_AFTER with a live_as_of that is set and not after now.
C3_PublicRule ==
    (Called("can_object_page_be_shown") /\ ~response.user.is_staff
        /\ ValidStatus(this_object))
        => response.out =
              Return(\/ this_object.publish_status = AVAILABLE
                     \/ /\ this_object.publish_status = AVAILABLE_AFTER
                        /\ this_object.live_as_of # None
                        /\ this_object.live_as_of[1] <= response.at)

\* C3 witness: a non-staff viewer was shown an AVAILABLE_AFTER row whose date
\* has passed, and one is on record.
C3_Witness ==
    /\ Called("can_object_page_be_shown")
    /\ response.user = PlainUser
    /\ this_object.publish_status = AVAILABLE_AFTER
    /\ this_object.live_as_of = Some(0)
    /\ response.at = 1
    /\ response.out = Return(TRUE)

\* C4: a row with status AVAILABLE is shown whatever its live_as_of and
\* whoever the viewer.
C4_AvailableAlwaysShown ==
    (Called("can_object_page_be_shown") /\ this_object.publish_status = AVAILABLE)
        => response.out = Return(TRUE)

\* C4 witness: an AVAILABLE row dated in the future was shown to user = None.
C4_Witness ==
    /\ Called("can_object_page_be_shown")
    /\ response.user = NoUser
    /\ this_object.publish_status = AVAILABLE
    /\ this_object.live_as_of = Some(MaxTime)
    /\ response.at < MaxTime
    /\ response.out = Return(TRUE)

\* An AVAILABLE_AFTER row with a date, as a non-staff viewer sees it at t.
Scheduled(obj) == obj.publish_status = AVAILABLE_AFTER /\ obj.live_as_of # None

\* C5, the step: at every instant the decision for a scheduled row and a
\* non-staff viewer is "now >= live_as_of".
C5_Step ==
    \A pk \in Pks, user \in Users :
        (Scheduled(objects[pk]) /\ ~user.is_staff)
            => can_object_page_be_shown(user, objects[pk], now)
                  = Return(now >= objects[pk].live_as_of[1])

\* C5, once visible always visible: a step that leaves a scheduled row alone
\* never takes it from visible to not visible.
C5_StaysVisible ==
    \A pk \in Pks, user \in Users :
        (/\ Scheduled(objects[pk]) /\ ~user.is_staff
         /\ objects'[pk] = objects[pk]
         /\ can_object_page_be_shown(user, objects[pk], now) = Return(TRUE))
            => can_object_page_be_shown(user, objects'[pk], now') = Return(TRUE)

\* C5: for a fixed AVAILABLE_AFTER row with live_as_of = T and a non-staff
\* viewer the decision is a step function of time: false before T, true from
\* T on, and it never goes back to false as the clock advances.
C5_StepFunctionOfTime == []C5_Step /\ [][C5_StaysVisible]_vars

\* C5 witness: a scheduled row was refused before its date, has not been
\* touched since, and the clock has reached the date: it is now shown.
C5_Witness ==
    /\ Called("can_object_page_be_shown")
    /\ ~response.user.is_staff
    /\ Scheduled(this_object)
    /\ response.at < this_object.live_as_of[1]
    /\ response.out = Return(FALSE)
    /\ now = this_object.live_as_of[1]
    /\ can_object_page_be_shown(response.user, this_object, now) = Return(TRUE)

\* C6, the verdict: clean raises ValidationError exactly when the status is
\* AVAILABLE_AFTER and live_as_of is None, and returns otherwise.
C6_Verdict ==
    Called("clean")
        => response.out =
              (IF this_object.publish_status = AVAILABLE_AFTER
                  /\ this_object.live_as_of = None
               THEN Raise("ValidationError")
               ELSE Return(None))

\* C6: clean fails with a validation error if and only if the status is
\* AVAILABLE_AFTER and live_as_of is None, and it never changes the row.
C6_CleanRejectsMissingDate ==
    []C6_Verdict /\ [][response'.op = "clean" => objects' = objects]_vars

\* C6 witness: clean has rejected a row.
C6_Witness ==
    /\ Called("clean")
    /\ this_object.publish_status = AVAILABLE_AFTER
    /\ this_object.live_as_of = None
    /\ response.out = Raise("ValidationError")

\* C7: a stored AVAILABLE_AFTER row without a date makes the decision return
\* false for a non-staff viewer; it raises nothing.
C7_MissingDateFailsClosed ==
    (/\ Called("can_object_page_be_shown") /\ ~response.user.is_staff
     /\ this_object.publish_status = AVAILABLE_AFTER
     /\ this_object.live_as_of = None)
        => (response.out.raised = "" /\ response.out.value = Some(FALSE))

\* C7 witness: the decision ran for an anonymous viewer on such a row.
C7_Witness ==
    /\ Called("can_object_page_be_shown")
    /\ response.user = AnonymousUser
    /\ this_object.publish_status = AVAILABLE_AFTER
    /\ this_object.live_as_of = None
    /\ response.out.raised = ""

\* C8: for a non-staff viewer a row whose stored status is outside
\* {-1, 0, 1} is never reported visible.
C8_InvalidStatusNeverShown ==
    (Called("can_object_page_be_shown") /\ ~response.user.is_staff
        /\ ~ValidStatus(this_object))
        => response.out # Return(TRUE)

\* The label of a row with a valid status; null_label is the label of an
\* AVAILABLE_AFTER row without a date.
StatusLabel(obj, t, null_label) ==
    IF obj.publish_status = AVAILABLE
    THEN Label("<strong>Available</strong>", None, TRUE)
    ELSE IF obj.publish_status = NEVER_AVAILABLE
    THEN Label("<strong>Never Available</strong>", None, TRUE)
    ELSE IF obj.live_as_of = None
    THEN null_label
    ELSE IF obj.live_as_of[1] <= t
    THEN Label("<strong>Available</strong>", None, TRUE)
    ELSE Label("<strong>Available After: {dstr}</strong>",
               Some(obj.live_as_of[1] \div TicksPerDay), TRUE)

\* C9 as stated: AVAILABLE gives "Available", NEVER_AVAILABLE gives "Never
\* Available", AVAILABLE_AFTER with a date in the past or no date gives
\* "Available", AVAILABLE_AFTER with a future date gives "Available After:
\* <date>".
C9_LabelNullIsAvailable ==
    (Called("show_publish_status") /\ ValidStatus(this_object))
        => response.out =
              Return(StatusLabel(this_object, response.at,
                                 Label("<strong>Available</strong>", None, TRUE)))

\* C9 as amended: as above, except that AVAILABLE_AFTER with no date gives
\* the plain text "N/A"; a date equal to now counts as past.
C9_LabelNullIsNA ==
    (Called("show_publish_status") /\ ValidStatus(this_object))
        => response.out =
              Return(StatusLabel(this_object, response.at, Label("N/A", None, FALSE)))

\* C9 witness: the label of an AVAILABLE_AFTER row without a date was asked
\* for, and was "N/A".
C9_Witness ==
    /\ Called("show_publish_status")
    /\ this_object.publish_status = AVAILABLE_AFTER
    /\ this_object.live_as_of = None
    /\ response.out = Return(Label("N/A", None, FALSE))

\* C10, the verdict: get_object returns the row when the decision for
\* request.user is true and raises Http404 otherwise.
C10_Verdict ==
    Called("get_object")
        => response.out =
              (IF can_object_page_be_shown(response.user, this_object, response.at)
                     = Return(TRUE)
               THEN Return(this_object)
               ELSE Raise("Http404"))

\* C10: get_object returns the fetched row if and only if
\* can_object_page_be_shown(request.user, obj) is true, raises Http404
\* otherwise, and leaves the row's fields unchanged either way.
C10_DetailViewFollowsDecision ==
    []C10_Verdict /\ [][response'.op = "get_object" => objects' = objects]_vars

\* C10 witness: a detail view has answered Http404 for a row the decision
\* rejects.
C10_Witness ==
    /\ Called("get_object")
    /\ can_object_page_be_shown(response.user, this_object, response.at) = Return(FALSE)
    /\ response.out = Raise("Http404")

====
